---- MODULE Spec2Model ----
(***************************************************************************)
(* Model of src/memory/memory_manager.py: class MemoryManager, the         *)
(* persistent cycle store.  One MemoryManager object per execution         *)
(* context; the file system (data/cycles.json and data/cycle_<n>.json) is  *)
(* shared by all contexts.                                                 *)
(*                                                                         *)
(* Scores are modelled in tenths (0.2 is 2); a float quotient is modelled  *)
(* as a fraction in lowest terms.  The text built by get_context is        *)
(* modelled as the sequence of its lines.                                  *)
(***************************************************************************)
EXTENDS Integers, Sequences, FiniteSets, TLC

VARIABLES
    status,             \* per context: "none" (no object), "ready", "failed" (__init__ raised)
    memory_index,       \* per context: self.memory_index
    cycles_file,        \* content of data/cycles.json on disk
    files,              \* the record files on disk: path -> content
    index_save_errors,  \* number of "Failed to save memory index" error lines logged
    call                \* the last operation: its arguments, I/O outcomes and result

vars == <<status, memory_index, cycles_file, files, index_save_errors, call>>

----------------------------------------------------------------------------
(* Bounds and input sets                                                   *)

\* Updates are offered while an index holds fewer than MaxEntries entries, and
\* index persists fail while fewer than MaxEntries of them have failed.
MaxEntries == 3
MaxN == 3           \* get_context is called with 0..MaxN, and with its default

DefaultNumPreviousCycles == 3

Contexts == {1, 2, 3}

D1  == [cycle |-> 1, timestamp |-> "T1", user_goal |-> "G1",
        stages |-> [evaluation |-> [score |-> 2]]]
D1b == [cycle |-> 1, timestamp |-> "T4", user_goal |-> "G4",
        stages |-> [evaluation |-> [feedback |-> "none"]]]
D2  == [cycle |-> 2, timestamp |-> "T2", user_goal |-> "G2",
        stages |-> [evaluation |-> [score |-> 8]]]
D3  == [cycle |-> 3, timestamp |-> "T3", user_goal |-> "G3",
        stages |-> [evaluation |-> [score |-> 5]]]

\* The (cycle_data, reflection) pairs the caller passes to update.
UpdateArgs == {<<D1, "R1">>, <<D1b, "R2">>, <<D2, "R1">>, <<D3, "R1">>}

\* What the multi-context specification lets each context pass: contexts 1
\* and 2 write, context 3 only initializes a store.
ContextArgs(i) ==
    CASE i = 1 -> {<<D1, "R1">>}
      [] i = 2 -> {<<D2, "R1">>}
      [] OTHER -> {}

\* Outcome of open(path, 'w') + json.dump + close:
\*   "ok"          the document is written
\*   "open_fail"   open raises IOError, the file is untouched
\*   "write_fail"  open succeeded (the file is truncated), a later write or
\*                 the flush at close raises IOError
\* "skipped" stands for a write that was never attempted.
WriteOutcomes == {"ok", "open_fail", "write_fail"}
UpdateOutcomes ==
    {<<"open_fail", "skipped">>, <<"write_fail", "skipped">>}
        \cup {<<"ok", o>> : o \in WriteOutcomes}

----------------------------------------------------------------------------
(* Files                                                                   *)

Absent == [kind |-> "absent"]
Partial == [kind |-> "partial"]

json_dump(value) == [kind |-> "json", doc |-> value]

write_file(old, document, outcome) ==
    CASE outcome = "ok"         -> json_dump(document)
      [] outcome = "write_fail" -> Partial
      [] OTHER                  -> old

cycle_file(cycle) == <<"data", "cycle_", cycle, ".json">>

file_exists(fs, path) == path \in DOMAIN fs

read_or_absent(fs, path) == IF file_exists(fs, path) THEN fs[path] ELSE Absent

\* open(cycle_file, 'w'): a failed open creates nothing.
write_record(fs, path, document, outcome) ==
    IF outcome = "open_fail"
    THEN fs
    ELSE (path :> write_file(read_or_absent(fs, path), document, outcome)) @@ fs

----------------------------------------------------------------------------
(* The memory index                                                        *)

EmptyIndex == [cycles |-> <<>>, total_cycles |-> 0]

Unset == [unset |-> TRUE]

is_index(m) == "cycles" \in DOMAIN m

_load_memory_index(content) ==
    CASE content.kind = "absent"      -> [raised |-> FALSE, warned |-> FALSE, value |-> EmptyIndex]
      [] content.kind = "json"        -> [raised |-> FALSE, warned |-> FALSE, value |-> content.doc]
      [] content.kind = "partial"     -> [raised |-> FALSE, warned |-> TRUE, value |-> EmptyIndex]
      [] content.kind = "unreadable"  -> [raised |-> FALSE, warned |-> TRUE, value |-> EmptyIndex]
      [] content.kind = "undecodable" -> [raised |-> TRUE, warned |-> FALSE, value |-> Unset]

\* Mutant: incremental persistence, the newest entry is added to what is on disk.
_save_memory_index_incremental(disk, m, outcome) ==
    LET base == IF disk.kind = "json" THEN disk.doc.cycles ELSE <<>> IN
    write_file(disk,
               [cycles |-> Append(base, m.cycles[Len(m.cycles)]),
                total_cycles |-> m.total_cycles],
               outcome)

\* Mutant: the entries on disk that the writer does not hold are kept (a merge).
_save_memory_index_merging(disk, m, outcome) ==
    LET base == IF disk.kind = "json" THEN disk.doc.cycles ELSE <<>>
        Foreign(e) == \A k \in 1..Len(m.cycles) : m.cycles[k] # e
    IN write_file(disk,
                  [cycles |-> SelectSeq(base, Foreign) \o m.cycles,
                   total_cycles |-> m.total_cycles],
                  outcome)

_save_memory_index(disk, m, outcome) == write_file(disk, m, outcome)

evaluation_score(evaluation) ==
    IF "score" \in DOMAIN evaluation THEN evaluation.score ELSE 0

\* Mutant: the entry names the file under memory_dir instead of data_dir.
index_entry_memory_dir(cycle_data, file) ==
    [cycle     |-> cycle_data.cycle,
     timestamp |-> cycle_data.timestamp,
     goal      |-> cycle_data.user_goal,
     file      |-> <<"memory", "cycle_", cycle_data.cycle, ".json">>,
     score     |-> evaluation_score(cycle_data.stages.evaluation)]

index_entry(cycle_data, file) ==
    [cycle     |-> cycle_data.cycle,
     timestamp |-> cycle_data.timestamp,
     goal      |-> cycle_data.user_goal,
     file      |-> file,
     score     |-> evaluation_score(cycle_data.stages.evaluation)]

\* Mutant: total_cycles counts the entries.
append_entry_counting(m, cycle_data, file) ==
    [cycles       |-> Append(m.cycles, index_entry(cycle_data, file)),
     total_cycles |-> Len(m.cycles) + 1]

\* Mutant: an entry with the same cycle number is replaced (unique cycle numbers).
append_entry_unique(m, cycle_data, file) ==
    LET Other(e) == e.cycle # cycle_data.cycle IN
    [cycles       |-> Append(SelectSeq(m.cycles, Other), index_entry(cycle_data, file)),
     total_cycles |-> cycle_data.cycle]

append_entry(m, cycle_data, file) ==
    [cycles       |-> Append(m.cycles, index_entry(cycle_data, file)),
     total_cycles |-> cycle_data.cycle]

\* Mutant: the except branch does not return.
record_write_failed_ignored(rec) == FALSE

record_write_failed(rec) == rec # "ok"

----------------------------------------------------------------------------
(* Queries                                                                 *)

\* Python's seq[start:] for any integer start.
slice_from(seq, start) ==
    LET n == Len(seq)
        first == IF start < 0
                 THEN (IF n + start < 0 THEN 0 ELSE n + start)
                 ELSE (IF start > n THEN n ELSE start)
    IN SubSeq(seq, first + 1, n)

recent_cycles(cycles, num_previous_cycles) == slice_from(cycles, 0 - num_previous_cycles)

ContextHeader == [text |-> "## Previous Cycles Summary"]
NoPreviousCycles == [text |-> "No previous cycles available."]

\* The four lines appended for one index entry.
render_cycle(cycle_info) ==
    << [heading |-> cycle_info.cycle],
       [goal |-> cycle_info.goal],
       [performance_score |-> cycle_info.score],
       [date |-> cycle_info.timestamp] >>

RECURSIVE render_cycles(_)
render_cycles(cycles) ==
    IF cycles = <<>>
    THEN <<>>
    ELSE render_cycle(Head(cycles)) \o render_cycles(Tail(cycles))

get_context(m, num_previous_cycles) ==
    IF m.cycles = <<>>
    THEN <<ContextHeader, NoPreviousCycles>>
    ELSE <<ContextHeader>> \o render_cycles(recent_cycles(m.cycles, num_previous_cycles))

get_performance_history(m) == [k \in 1..Len(m.cycles) |-> m.cycles[k].score]

RECURSIVE py_sum(_)
py_sum(scores) == IF scores = <<>> THEN 0 ELSE Head(scores) + py_sum(Tail(scores))

RECURSIVE py_max(_)
py_max(scores) ==
    IF Len(scores) = 1
    THEN scores[1]
    ELSE LET rest == py_max(Tail(scores)) IN
         IF Head(scores) >= rest THEN Head(scores) ELSE rest

RECURSIVE gcd(_, _)
gcd(a, b) == IF b = 0 THEN a ELSE gcd(b, a % b)

\* The value of the float quotient numerator / denominator (denominator > 0).
true_div(numerator, denominator) ==
    LET g == gcd(denominator, numerator) IN
    [num |-> numerator \div g, den |-> denominator \div g]

Zero == [num |-> 0, den |-> 1]

\* Mutant: total_cycles is read from the index field.
get_statistics_from_field(m) ==
    LET scores == get_performance_history(m) IN
    IF scores = <<>>
    THEN [total_cycles |-> 0, average_score |-> Zero, best_score |-> 0, improvement |-> 0]
    ELSE [total_cycles  |-> m.total_cycles,
          average_score |-> true_div(py_sum(scores), Len(scores)),
          best_score    |-> py_max(scores),
          improvement   |-> IF Len(scores) > 1 THEN scores[Len(scores)] - scores[1] ELSE 0]

get_statistics(m) ==
    LET scores == get_performance_history(m) IN
    IF scores = <<>>
    THEN [total_cycles |-> 0, average_score |-> Zero, best_score |-> 0, improvement |-> 0]
    ELSE [total_cycles  |-> Len(scores),
          average_score |-> true_div(py_sum(scores), Len(scores)),
          best_score    |-> py_max(scores),
          improvement   |-> IF Len(scores) > 1 THEN scores[Len(scores)] - scores[1] ELSE 0]

----------------------------------------------------------------------------
(* Actions                                                                 *)

Init ==
    /\ status = [i \in Contexts |-> "none"]
    /\ memory_index = [i \in Contexts |-> Unset]
    /\ cycles_file = Absent
    /\ files = <<>>
    /\ index_save_errors = 0
    /\ call = [op |-> "none"]

\* MemoryManager.__init__
Construct(i) ==
    /\ status[i] = "none"
    /\ LET loaded == _load_memory_index(cycles_file) IN
        /\ status' = [status EXCEPT ![i] = IF loaded.raised THEN "failed" ELSE "ready"]
        /\ memory_index' = [memory_index EXCEPT ![i] = loaded.value]
        /\ call' = [op |-> "init", ctx |-> i, raised |-> loaded.raised,
                    warned |-> loaded.warned]
    /\ UNCHANGED <<cycles_file, files, index_save_errors>>

\* MemoryManager.update
Update(i, cycle_data, reflection, rec, idx) ==
    /\ status[i] = "ready"
    /\ is_index(memory_index[i]) => Len(memory_index[i].cycles) < MaxEntries
    /\ idx \in {"open_fail", "write_fail"} => index_save_errors < MaxEntries
    /\ LET path == cycle_file(cycle_data.cycle)
           document == [cycle_data |-> cycle_data, reflection |-> reflection]
           base == [op |-> "update", ctx |-> i, cycle_data |-> cycle_data,
                    reflection |-> reflection, rec |-> rec, idx |-> idx]
       IN
        /\ files' = write_record(files, path, document, rec)
        /\ IF record_write_failed(rec)
           THEN /\ call' = base @@ [raised |-> FALSE]
                /\ UNCHANGED <<memory_index, cycles_file, index_save_errors>>
           ELSE IF ~is_index(memory_index[i])
           THEN /\ call' = base @@ [raised |-> TRUE]
                /\ UNCHANGED <<memory_index, cycles_file, index_save_errors>>
           ELSE LET m == append_entry(memory_index[i], cycle_data, path) IN
                /\ memory_index' = [memory_index EXCEPT ![i] = m]
                /\ cycles_file' = _save_memory_index(cycles_file, m, idx)
                /\ index_save_errors' =
                       index_save_errors + (IF idx \in {"open_fail", "write_fail"} THEN 1 ELSE 0)
                /\ call' = base @@ [raised |-> FALSE]
    /\ UNCHANGED status

\* MemoryManager.get_context; on an object whose memory_index is not an index
\* document the subscript memory_index["cycles"] raises.
GetContext(i, n) ==
    /\ status[i] = "ready"
    /\ call' = IF is_index(memory_index[i])
               THEN [op |-> "get_context", ctx |-> i, n |-> n, raised |-> FALSE,
                     ret |-> get_context(memory_index[i], n)]
               ELSE [op |-> "get_context", ctx |-> i, n |-> n, raised |-> TRUE]
    /\ UNCHANGED <<status, memory_index, cycles_file, files, index_save_errors>>

\* MemoryManager.get_performance_history
GetPerformanceHistory(i) ==
    /\ status[i] = "ready"
    /\ call' = IF is_index(memory_index[i])
               THEN [op |-> "get_performance_history", ctx |-> i, raised |-> FALSE,
                     ret |-> get_performance_history(memory_index[i])]
               ELSE [op |-> "get_performance_history", ctx |-> i, raised |-> TRUE]
    /\ UNCHANGED <<status, memory_index, cycles_file, files, index_save_errors>>

\* MemoryManager.get_statistics
GetStatistics(i) ==
    /\ status[i] = "ready"
    /\ call' = IF is_index(memory_index[i])
               THEN [op |-> "get_statistics", ctx |-> i, raised |-> FALSE,
                     ret |-> get_statistics(memory_index[i])]
               ELSE [op |-> "get_statistics", ctx |-> i, raised |-> TRUE]
    /\ UNCHANGED <<status, memory_index, cycles_file, files, index_save_errors>>

\* One store object, started on empty storage.
Next ==
    \E i \in {1} :
        \/ Construct(i)
        \/ \E a \in UpdateArgs, o \in UpdateOutcomes : Update(i, a[1], a[2], o[1], o[2])
        \/ \E n \in (0..MaxN) \cup {DefaultNumPreviousCycles} : GetContext(i, n)
        \/ GetPerformanceHistory(i)
        \/ GetStatistics(i)

Spec == Init /\ [][Next]_vars

\* One store object, started on storage that already holds data/cycles.json.
V1 == index_entry(D1, cycle_file(1))

LoadContents ==
    { json_dump([cycles |-> <<V1>>, total_cycles |-> 1]),   \* written by an earlier run
      json_dump(<<>>),                     \* the JSON text [] (or {})
      json_dump([note |-> "x"]),           \* the JSON text {"note": "x"}
      Partial,                             \* truncated or empty text: JSONDecodeError
      [kind |-> "unreadable"],             \* open or read raises IOError
      [kind |-> "undecodable"] }           \* bytes that are not text: UnicodeDecodeError

InitLoad ==
    /\ status = [i \in Contexts |-> "none"]
    /\ memory_index = [i \in Contexts |-> Unset]
    /\ cycles_file \in LoadContents
    /\ files = (cycle_file(1) :> json_dump([cycle_data |-> D1, reflection |-> "R1"]))
    /\ index_save_errors = 0
    /\ call = [op |-> "none"]

SpecLoad == InitLoad /\ [][Next]_vars

\* Several execution contexts sharing the storage, each with its own object.
NextMulti ==
    \E i \in Contexts :
        \/ Construct(i)
        \/ \E a \in ContextArgs(i), o \in UpdateOutcomes : Update(i, a[1], a[2], o[1], o[2])

SpecMulti == Init /\ [][NextMulti]_vars

----------------------------------------------------------------------------
(* Properties                                                              *)

IsUpdate(c) == c.op = "update"
RecordWritten(c) == IsUpdate(c) /\ c.rec = "ok"
RecordDocument(c) == json_dump([cycle_data |-> c.cycle_data, reflection |-> c.reflection])
Entries(i) == memory_index[i].cycles

\* C1: when the record write of update fails with an I/O error, the in-memory
\* index (entries and total_cycles) and the on-disk index file are what they
\* were before the call, and no persist is attempted.
C1_FailedRecordWriteLeavesIndex ==
    [][ (IsUpdate(call') /\ call'.rec # "ok") =>
            /\ memory_index' = memory_index
            /\ cycles_file' = cycles_file
            /\ index_save_errors' = index_save_errors ]_vars

C1_Witness ==
    /\ IsUpdate(call) /\ call.rec = "write_fail"
    /\ Len(Entries(call.ctx)) >= 1
    /\ cycles_file.kind = "json"

\* C2: when the record write of update succeeds, the entry sequence is the old
\* one with exactly one entry appended, the projection of cycle_data whose file
\* names the record just written; total_cycles is cycle_data.cycle; whether or
\* not the index persist succeeds.
C2_SuccessfulUpdateAppendsProjection ==
    [][ RecordWritten(call') =>
            LET i == call'.ctx
                cd == call'.cycle_data
                old == memory_index[i].cycles
                new == memory_index'[i].cycles
                e == new[Len(new)]
            IN  /\ Len(new) = Len(old) + 1
                /\ SubSeq(new, 1, Len(old)) = old
                /\ e.cycle = cd.cycle
                /\ e.timestamp = cd.timestamp
                /\ e.goal = cd.user_goal
                /\ e.score = (IF "score" \in DOMAIN cd.stages.evaluation
                              THEN cd.stages.evaluation.score ELSE 0)
                /\ e.file \in DOMAIN files'
                /\ files'[e.file] = RecordDocument(call')
                /\ DOMAIN e = {"cycle", "timestamp", "goal", "file", "score"}
                /\ memory_index'[i].total_cycles = cd.cycle ]_vars

C2_Witness ==
    /\ RecordWritten(call) /\ call.idx = "write_fail"
    /\ call.cycle_data = D1b
    /\ Len(Entries(call.ctx)) >= 2
    /\ Entries(call.ctx)[Len(Entries(call.ctx))].score = 0

\* C3: a failed index persist does not roll back the in-memory append (memory
\* is then ahead of the disk), and every update whose record write and index
\* persist both succeed leaves the on-disk index equal to the whole in-memory
\* index.
C3_PersistGapClosedByNextSuccess ==
    [][ RecordWritten(call') =>
            LET i == call'.ctx IN
            /\ Len(memory_index'[i].cycles) = Len(memory_index[i].cycles) + 1
            /\ call'.idx # "ok" => cycles_file' # json_dump(memory_index'[i])
            /\ call'.idx = "ok" => cycles_file' = json_dump(memory_index'[i]) ]_vars

C3_Witness ==
    /\ RecordWritten(call) /\ call.idx = "ok"
    /\ index_save_errors >= 1
    /\ Len(Entries(call.ctx)) >= 2
    /\ cycles_file = json_dump(memory_index[call.ctx])

\* C4: for one store started on empty storage, every entry of the in-memory
\* index and every entry of the on-disk index names a record file that exists.
C4_EntryFilesExist ==
    /\ \A i \in Contexts :
            status[i] = "ready" =>
                \A k \in 1..Len(Entries(i)) : file_exists(files, Entries(i)[k].file)
    /\ cycles_file.kind = "json" =>
            \A k \in 1..Len(cycles_file.doc.cycles) :
                file_exists(files, cycles_file.doc.cycles[k].file)

C4_Witness ==
    /\ IsUpdate(call) /\ call.rec = "write_fail"
    /\ index_save_errors >= 1
    /\ cycles_file.kind = "json"
    /\ Len(cycles_file.doc.cycles) >= 1
    /\ Len(Entries(call.ctx)) > Len(cycles_file.doc.cycles)

WithCycle(cycles, c) == LET Same(e) == e.cycle = c IN SelectSeq(cycles, Same)

\* C5: an update for a cycle number that already has an entry is not rejected:
\* it leaves exactly one record file for that number, holding this call's
\* cycle_data/reflection pair, and one more entry with that number, after the
\* earlier ones, carrying this call's goal, timestamp and score.
C5_DuplicateCycleNumber ==
    [][ (RecordWritten(call') /\ WithCycle(memory_index[call'.ctx].cycles,
                                           call'.cycle_data.cycle) # <<>>) =>
            LET i == call'.ctx
                cd == call'.cycle_data
                before == WithCycle(memory_index[i].cycles, cd.cycle)
                after == WithCycle(memory_index'[i].cycles, cd.cycle)
                last == after[Len(after)]
            IN  /\ { p \in DOMAIN files' :
                        /\ files'[p].kind = "json"
                        /\ files'[p].doc.cycle_data.cycle = cd.cycle }
                     = { cycle_file(cd.cycle) }
                /\ files'[cycle_file(cd.cycle)] = RecordDocument(call')
                /\ Len(after) = Len(before) + 1
                /\ SubSeq(after, 1, Len(before)) = before
                /\ last.goal = cd.user_goal
                /\ last.timestamp = cd.timestamp
                /\ last.score = evaluation_score(cd.stages.evaluation) ]_vars

C5_Witness ==
    /\ RecordWritten(call) /\ call.cycle_data = D1b
    /\ LET same == WithCycle(Entries(call.ctx), 1) IN
        /\ Len(same) = 2
        /\ same[1].goal = "G1" /\ same[2].goal = "G4"
    /\ files[cycle_file(1)] = json_dump([cycle_data |-> D1b, reflection |-> "R2"])

Min(a, b) == IF a <= b THEN a ELSE b

LastEntries(cycles, count) == SubSeq(cycles, Len(cycles) - count + 1, Len(cycles))

\* C6: get_context(n), n >= 0, renders exactly the last min(n, k) of the k
\* index entries, in append order; with k = 0 it returns the block stating
\* that no previous cycles are available.
C6_ContextIsLastN ==
    (call.op = "get_context" /\ ~call.raised) =>
        LET cycles == Entries(call.ctx) IN
        IF cycles = <<>>
        THEN call.ret = <<ContextHeader, NoPreviousCycles>>
        ELSE call.ret = <<ContextHeader>>
                          \o render_cycles(LastEntries(cycles, Min(call.n, Len(cycles))))

SumOver(cycles) ==
    LET S[k \in 0..Len(cycles)] == IF k = 0 THEN 0 ELSE S[k - 1] + cycles[k].score
    IN S[Len(cycles)]

\* C7: get_statistics returns the entry count as total_cycles, the mean of the
\* entry scores, their maximum, and last minus first score (0 with fewer than
\* two entries); all zero without entries.  get_performance_history is the
\* entry scores in append order.
C7_Statistics ==
    /\ (call.op = "get_statistics" /\ ~call.raised) =>
        LET cycles == Entries(call.ctx)
            k == Len(cycles)
            r == call.ret
        IN  /\ r.total_cycles = k
            /\ r.average_score.den > 0
            /\ r.average_score.num * k = SumOver(cycles) * r.average_score.den
            /\ k = 0 => r.average_score.num = 0
            /\ k > 0 => /\ \E j \in 1..k : r.best_score = cycles[j].score
                        /\ \A j \in 1..k : r.best_score >= cycles[j].score
            /\ k = 0 => r.best_score = 0
            /\ r.improvement = (IF k >= 2 THEN cycles[k].score - cycles[1].score ELSE 0)
    /\ (call.op = "get_performance_history" /\ ~call.raised) =>
        LET cycles == Entries(call.ctx) IN
        /\ Len(call.ret) = Len(cycles)
        /\ \A j \in 1..Len(cycles) : call.ret[j] = cycles[j].score

C7_Witness ==
    /\ call.op = "get_statistics"
    /\ Len(Entries(call.ctx)) = 3
    /\ call.ret.total_cycles # memory_index[call.ctx].total_cycles
    /\ call.ret.improvement < 0
    /\ call.ret.average_score.den = 3

valid_index_document(content) ==
    /\ content.kind = "json"
    /\ {"cycles", "total_cycles"} \subseteq DOMAIN content.doc

\* C8: whenever data/cycles.json does not hold a valid index document,
\* initialization completes without failing and memory_index is the empty index.
C8_InvalidIndexLoadsEmpty ==
    (call.op = "init" /\ ~valid_index_document(cycles_file)) =>
        /\ ~call.raised
        /\ status[call.ctx] = "ready"
        /\ memory_index[call.ctx] = EmptyIndex

\* C9: the on-disk index is last-writer-wins with no merge: a successful
\* persist leaves on disk exactly the writer's in-memory index, so the entries
\* another context had persisted and the writer does not hold are dropped.
C9_LastWriterWins ==
    [][ (RecordWritten(call') /\ call'.idx = "ok") =>
            LET mine == memory_index'[call'.ctx].cycles IN
            /\ cycles_file'.kind = "json"
            /\ cycles_file'.doc.cycles = mine
            /\ cycles_file'.doc.total_cycles = call'.cycle_data.cycle
            /\ cycles_file.kind = "json" =>
                 \A k \in 1..Len(cycles_file.doc.cycles) :
                    (\A j \in 1..Len(mine) : mine[j] # cycles_file.doc.cycles[k])
                        => \A j \in 1..Len(cycles_file'.doc.cycles) :
                              cycles_file'.doc.cycles[j] # cycles_file.doc.cycles[k] ]_vars

\* Both contexts' record writes and persists succeeded, the disk index holds
\* one entry, and a store initialized afterwards holds just that entry.
C9_Witness ==
    /\ index_save_errors = 0
    /\ status[1] = "ready" /\ Len(Entries(1)) = 1
    /\ status[2] = "ready" /\ Len(Entries(2)) = 1
    /\ file_exists(files, cycle_file(1)) /\ files[cycle_file(1)].kind = "json"
    /\ file_exists(files, cycle_file(2)) /\ files[cycle_file(2)].kind = "json"
    /\ cycles_file.kind = "json"
    /\ Len(cycles_file.doc.cycles) = 1
    /\ call.op = "init" /\ call.ctx = 3
    /\ memory_index[3] = cycles_file.doc

\* C10: an update whose record write fails leaves an existing record file of
\* that cycle number holding the earlier call's complete pair.
C10_FailedRecordWriteKeepsFile ==
    [][ (IsUpdate(call') /\ call'.rec # "ok") =>
            \A p \in DOMAIN files :
                files[p].kind = "json" =>
                    (p \in DOMAIN files' /\ files'[p] = files[p]) ]_vars

====
